---- MODULE Spec2Model ----
(***************************************************************************)
(* TradingBot (src/src/core/trading_bot.py): the lifecycle state machine,  *)
(* the supervised periodic loops, the drawdown circuit breaker and the     *)
(* shutdown protocol, as asyncio runs them: one thread, and a step of the  *)
(* model is the synchronous block a coroutine runs between two suspension  *)
(* points (an awaited collaborator call or a sleep).  An awaited coroutine *)
(* of the bot itself that never suspends (_save_state, _check_daily_reset, *)
(* the head of _pause_trading) is part of the caller's block.              *)
(***************************************************************************)
EXTENDS Integers, Sequences, FiniteSets, TLC

\* ---------------------------------------------------------------- bounds
MaxStart == 2          \* start() calls made by the environment
MaxShutdown == 2       \* shutdown() invocations (explicit request, signal handler)
MaxInit == 1           \* initialize() calls in the specification that runs all five loops
MaxInitErr == 1        \* initialize() calls in the errors specification
FullStarts == 1        \* start() calls in the specification that runs all five loops
FullShutdowns == 1     \* shutdown() invocations in that specification
RiskStarts == 1        \* start() calls in the circuit breaker specification
RiskShutdowns == 1     \* shutdown() invocations in the circuit breaker specification
ErrStarts == 1         \* start() calls in the errors specification
ErrPrefill == 100      \* failed initialize() calls already made in the errors specification
InitCalls == 1         \* initialize() calls in the initializer specification
InitStarts == 1        \* start() calls in the initializer specification
InitShutdowns == 1     \* shutdown() invocations in the initializer specification
SupStarts == 1         \* start() calls in the supervisor specification
ContainStarts == 1     \* start() calls in the containment specification
MaxEscapes == 1        \* exceptions that leave a loop in the containment specification
MaxAbnormal == 1       \* units that fail or are cancelled in the supervisor specification
PauseInits == 1        \* initialize() calls in the circuit breaker's lifecycle specification
PauseStarts == 1       \* start() calls in the circuit breaker's lifecycle specification
PauseShutdowns == 1    \* shutdown() invocations in the circuit breaker's lifecycle specification
RestartStarts == 2     \* start() calls in the restart specification
RestartShutdowns == 1  \* shutdown() invocations in the restart specification
HaltStarts == 1        \* start() calls in the specification of the health check against shutdown()
HaltShutdowns == 1     \* shutdown() invocations in that specification
StopShutdowns == 1     \* shutdown() invocations on the running bot of the winding-down specification
HealthStarts == 1      \* start() calls in the health check specification
MaxDay == 3            \* the last calendar date of the health check specification
MaxResets == 2         \* reset_daily_counters() invocations followed on one date

\* ------------------------------------------------------ program constants
WarnDrawdown == 15     \* percent, line 349
CriticalDrawdown == 20 \* percent, line 352
DailyLossLimit == 5    \* percent, line 356
ErrorsCap == 100       \* line 434
ErrorsKeep == 50       \* line 435

\* BotState, lines 29-36
BotState == {"INITIALIZING", "RUNNING", "PAUSED", "STOPPING", "STOPPED", "ERROR"}

\* the names _main_loop gives its five units, lines 257-261
Loops == {"Scanner", "Strategy", "Risk Monitor", "Performance", "Health Check"}

Callers == 1..MaxStart
Shutdowns == 1..MaxShutdown
\* a monitored unit: the start() call whose _main_loop spawned it, and its name
Tasks == Callers \X Loops

\* risk snapshots the risk engine may report (percent), around the thresholds
Drawdowns == {WarnDrawdown, WarnDrawdown + 1, CriticalDrawdown, CriticalDrawdown + 1}
DailyLosses == {DailyLossLimit, DailyLossLimit + 1}

\* the reason _pause_trading passes to close_all_positions, line 475
PauseReason == "Protection drawdown"

\* str(e) of the two explicit failures of initialize, lines 144 and 153
ExchangeFailMsg == "Echec de connexion a l'exchange"
FeedFailMsg == "Echec de connexion WebSocket"
\* str(e) of an exception a collaborator raised
RaisedMsg == "exception"

VARIABLES
    state,            \* self.status.state
    errors,           \* self.status.errors
    shutdown_event,   \* self._shutdown_event is set
    tasks,            \* self._tasks
    exchange,         \* self.exchange is not None
    websocket_feed,   \* self.websocket_feed is not None
    managers,         \* risk_manager, market_data, watchlist_scanner, pair_manager are not None
    exConnected,      \* self.exchange.connected
    wsConnected,      \* self.websocket_feed.get_metrics()['connected']
    positionsOpen,    \* self.pair_manager.positions is not empty
    close_on_pause,   \* self.config.get('close_on_pause', False)
    today,            \* datetime.now().date(), as a day number
    lastDailyReset,   \* self._last_daily_reset.date(), 0 while the attribute is unset
    resetsToday,      \* reset_daily_counters() invocations on the date today
    cycleDay,         \* per caller: the date its health check cycle in flight began, or 0
    initPc,           \* where the initialize() call in flight is suspended
    initResult,       \* what the latest initialize() call returned: none (yet), true, false
    initLeft,         \* initialize() calls the environment may still make
    startLeft,        \* start() calls the environment may still make
    shutLeft,         \* shutdown() invocations the environment may still make
    startPc,          \* per start() call: idle, waiting, returned, rejected
    mainPc,           \* per start() call: its _main_loop task
    pc,               \* per monitored unit: where its loop is
    shutPc,           \* per shutdown() invocation: idle, disc, close, done
    closeCalls,       \* close_all_positions invocations since the last transition to RUNNING
    closeReason,      \* the reason given to the latest close_all_positions invocation
    finalSnapshots,   \* snapshot files written by shutdown() since the last transition to RUNNING
    saveFailed        \* shutdown() invocations in flight whose snapshot write raised

vars == << state, errors, shutdown_event, tasks, exchange, websocket_feed, managers,
           exConnected, wsConnected, positionsOpen, close_on_pause, today,
           lastDailyReset, resetsToday, cycleDay, initPc, initResult, initLeft, startLeft, shutLeft, startPc, mainPc, pc, shutPc,
           closeCalls, closeReason, finalSnapshots, saveFailed >>

\* groups of variables an action leaves alone
collabVars == << exchange, websocket_feed, managers, exConnected, wsConnected >>
resetVars == << lastDailyReset, resetsToday >>
dayVars == << today, resetVars, cycleDay >>
initVars == << initPc, initResult, initLeft >>
callVars == << startLeft, shutLeft >>
ghostVars == << closeCalls, closeReason, finalSnapshots, saveFailed >>

\* --------------------------------------------------------------- __init__
\* lines 56-91: state INITIALIZING, no collaborator, event clear, no task
InitWith(inits, starts, shuts, errs, st) ==
    /\ state = st
    /\ errors = errs
    /\ shutdown_event = FALSE
    /\ tasks = {}
    /\ positionsOpen = FALSE
    /\ close_on_pause \in BOOLEAN
    /\ today = 1
    /\ lastDailyReset = 0
    /\ resetsToday = 0
    /\ cycleDay = [c \in Callers |-> 0]
    /\ initPc = "idle"
    /\ initLeft = inits
    /\ startLeft = starts
    /\ shutLeft = shuts
    /\ startPc = [c \in Callers |-> "idle"]
    /\ mainPc = [c \in Callers |-> "none"]
    /\ pc = [t \in Tasks |-> "absent"]
    /\ shutPc = [k \in Shutdowns |-> "idle"]
    /\ closeCalls = 0
    /\ closeReason = ""
    /\ finalSnapshots = 0
    /\ saveFailed = {}

\* lines 76-81: no collaborator yet
Fresh(inits, starts, shuts) ==
    /\ InitWith(inits, starts, shuts, << >>, "INITIALIZING")
    /\ initResult = "none"
    /\ exchange = FALSE
    /\ websocket_feed = FALSE
    /\ managers = FALSE
    /\ exConnected = FALSE
    /\ wsConnected = FALSE

\* lines 123-188: the bot after an initialize() call that returned True: the
\* collaborators built, state STOPPED, no position yet; the feed and the exchange are
\* still connected (up) or have both lost their connection since
ReadyUp(starts, shuts, up) ==
    /\ InitWith(0, starts, shuts, << >>, "STOPPED")
    /\ initResult = "true"
    /\ exchange = TRUE
    /\ websocket_feed = TRUE
    /\ managers = TRUE
    /\ exConnected = up
    /\ wsConnected = up

\* lines 123-188: the bot right after an initialize() call that returned True
Ready(starts, shuts) == ReadyUp(starts, shuts, TRUE)

\* lines 235-266: the bot after initialize() returned True, start() was called once
\* and its main task spawned the five units: state RUNNING, start() waiting for the
\* shutdown event, every unit before its first liveness check; the feed and the
\* exchange are connected (up) or have both lost their connection since
Running(shuts, up) ==
    /\ state = "RUNNING"
    /\ errors = << >>
    /\ shutdown_event = FALSE
    /\ tasks = {t \in Tasks : t[1] = 1}
    /\ exchange = TRUE
    /\ websocket_feed = TRUE
    /\ managers = TRUE
    /\ exConnected = up
    /\ wsConnected = up
    /\ positionsOpen = FALSE
    /\ close_on_pause \in BOOLEAN
    /\ today = 1
    /\ lastDailyReset = 0
    /\ resetsToday = 0
    /\ cycleDay = [c \in Callers |-> 0]
    /\ initPc = "idle"
    /\ initResult = "true"
    /\ initLeft = 0
    /\ startLeft = 0
    /\ shutLeft = shuts
    /\ startPc = [c \in Callers |-> IF c = 1 THEN "waiting" ELSE "idle"]
    /\ mainPc = [c \in Callers |-> IF c = 1 THEN "gather" ELSE "none"]
    /\ pc = [t \in Tasks |-> IF t[1] = 1 THEN "idle" ELSE "absent"]
    /\ shutPc = [k \in Shutdowns |-> "idle"]
    /\ closeCalls = 0
    /\ closeReason = ""
    /\ finalSnapshots = 0
    /\ saveFailed = {}

\* ------------------------------------------------------------- initialize
\* an except branch that forgets to record the failure
InitFailUnrecorded(msg) ==
    /\ state' = "ERROR"
    /\ errors' = errors
    /\ initPc' = "idle"
    /\ initResult' = "false"

\* lines 190-194: the except branch of initialize
InitFail(msg) ==
    /\ state' = "ERROR"
    /\ errors' = Append(errors, msg)
    /\ initPc' = "idle"
    /\ initResult' = "false"

\* lines 130-143: construct the exchange connector, call its connect
InitializeCall ==
    /\ initPc = "idle"
    /\ initLeft > 0
    /\ initLeft' = initLeft - 1
    /\ exchange' = TRUE
    /\ exConnected' = FALSE
    /\ initPc' = "exchange_connect"
    /\ initResult' = "none"
    /\ UNCHANGED << state, errors, shutdown_event, tasks, websocket_feed, managers,
                    wsConnected, positionsOpen, close_on_pause, callVars, dayVars, startPc,
                    mainPc, pc, shutPc, ghostVars >>

\* lines 140-153: exchange.connect returned r; construct the feed, call its connect
InitializeExchange(r) ==
    /\ initPc = "exchange_connect"
    /\ IF r = "ok"
       THEN /\ exConnected' = TRUE
            /\ websocket_feed' = TRUE
            /\ wsConnected' = FALSE
            /\ initPc' = "feed_connect"
            /\ UNCHANGED << state, errors, initResult >>
       ELSE /\ InitFail(IF r = "false" THEN ExchangeFailMsg ELSE RaisedMsg)
            /\ UNCHANGED << exConnected, websocket_feed, wsConnected >>
    /\ UNCHANGED << shutdown_event, tasks, exchange, managers, positionsOpen,
                    close_on_pause, callVars, dayVars, initLeft, startPc, mainPc, pc, shutPc,
                    ghostVars >>

\* lines 152-180: feed.connect returned r; construct the risk manager, the market
\* data manager, the scanner and the pair manager, call market_data.initialize
InitializeFeed(r) ==
    /\ initPc = "feed_connect"
    /\ IF r = "ok"
       THEN /\ wsConnected' = TRUE
            /\ managers' = TRUE
            /\ positionsOpen' = FALSE
            /\ initPc' = "market_data"
            /\ UNCHANGED << state, errors, initResult >>
       ELSE /\ InitFail(IF r = "false" THEN FeedFailMsg ELSE RaisedMsg)
            /\ UNCHANGED << wsConnected, managers, positionsOpen >>
    /\ UNCHANGED << shutdown_event, tasks, exchange, websocket_feed, exConnected,
                    close_on_pause, callVars, dayVars, initLeft, startPc, mainPc, pc, shutPc,
                    ghostVars >>

\* lines 180-188: market_data.initialize returned (r = "ok") and the subscriptions
\* were made, or one of the two raised
InitializeData(r) ==
    /\ initPc = "market_data"
    /\ IF r = "ok"
       THEN /\ state' = "STOPPED"
            /\ initPc' = "idle"
            /\ initResult' = "true"
            /\ UNCHANGED errors
       ELSE InitFail(RaisedMsg)
    /\ UNCHANGED << shutdown_event, tasks, collabVars, positionsOpen, close_on_pause, callVars,
                    dayVars, initLeft, startPc, mainPc, pc, shutPc, ghostVars >>

\* ------------------------------------------------------------------ start
\* start() that also resumes a paused bot
StartAllowedFromPaused(st) == st \in {"STOPPED", "ERROR", "PAUSED"}

\* line 237: the states start() leaves
StartAllowed(st) == st \in {"STOPPED", "ERROR"}

\* lines 235-249: start(), to its return (rejected, or the event already set) or to
\* its suspension in _shutdown_event.wait()
StartCall(c) ==
    /\ startPc[c] = "idle"
    /\ c > 1 => startPc[c - 1] # "idle"
    /\ startLeft > 0
    /\ startLeft' = startLeft - 1
    /\ IF StartAllowed(state)
       THEN /\ state' = "RUNNING"
            /\ mainPc' = [mainPc EXCEPT ![c] = "created"]
            /\ startPc' = [startPc EXCEPT
                              ![c] = IF shutdown_event THEN "returned" ELSE "waiting"]
            /\ closeCalls' = 0
            /\ finalSnapshots' = 0
       ELSE /\ startPc' = [startPc EXCEPT ![c] = "rejected"]
            /\ UNCHANGED << state, mainPc, closeCalls, finalSnapshots >>
    /\ UNCHANGED << errors, shutdown_event, tasks, collabVars, positionsOpen,
                    close_on_pause, shutLeft, dayVars, initVars, pc, shutPc,
                    closeReason, saveFailed >>

\* line 249: _shutdown_event.wait() returns once the event is set
StartReturn(c) ==
    /\ startPc[c] = "waiting"
    /\ shutdown_event
    /\ startPc' = [startPc EXCEPT ![c] = "returned"]
    /\ UNCHANGED << state, errors, shutdown_event, tasks, collabVars, positionsOpen,
                    close_on_pause, callVars, dayVars, initVars, mainPc, pc, shutPc, ghostVars >>

\* -------------------------------------------------------------- _main_loop
\* lines 251-266 and 273-288: the main task's first run spawns the five monitored
\* units, adds them to _tasks and suspends in gather
MainLoopRun(c) ==
    /\ mainPc[c] = "created"
    /\ mainPc' = [mainPc EXCEPT ![c] = "gather"]
    /\ pc' = [t \in Tasks |-> IF t[1] = c THEN "idle" ELSE pc[t]]
    /\ tasks' = tasks \cup {t \in Tasks : t[1] = c}
    /\ UNCHANGED << state, errors, shutdown_event, collabVars, positionsOpen,
                    close_on_pause, callVars, dayVars, initVars, startPc, shutPc, ghostVars >>

\* a wrapper that lets the failure of its coroutine through
MonitoredUnguarded(outcome) ==
    CASE outcome = "return" -> "done"
      [] outcome = "raise" -> "raised"
      [] outcome = "cancel" -> "cancelled"

\* lines 275-283: how a monitored unit completes for the outcome of its coroutine:
\* a return ends it, a cancellation is raised again, any other exception is recorded
\* in errors and swallowed
Monitored(outcome) ==
    CASE outcome = "return" -> "done"
      [] outcome = "raise" -> "failed"
      [] outcome = "cancel" -> "cancelled"

\* the values of pc of a completed unit ("raised": completed with an exception)
Ended == {"done", "failed", "cancelled", "raised"}

\* lines 264-271: gather returns when the five units have completed, raises the
\* exception of a unit that completed with one (the handler sets ERROR) and raises
\* the cancellation of a cancelled unit (which the handler does not catch)
MainLoopDone(c) ==
    /\ mainPc[c] = "gather"
    /\ \/ /\ \E l \in Loops : pc[<< c, l >>] = "raised"
          /\ state' = "ERROR"
          /\ mainPc' = [mainPc EXCEPT ![c] = "error"]
       \/ /\ \E l \in Loops : pc[<< c, l >>] = "cancelled"
          /\ mainPc' = [mainPc EXCEPT ![c] = "cancelled"]
          /\ UNCHANGED state
       \/ /\ \A l \in Loops : pc[<< c, l >>] \in {"done", "failed"}
          /\ mainPc' = [mainPc EXCEPT ![c] = "done"]
          /\ UNCHANGED state
    /\ UNCHANGED << errors, shutdown_event, tasks, collabVars, positionsOpen,
                    close_on_pause, callVars, dayVars, initVars, startPc, pc, shutPc, ghostVars >>

\* a removal that only the wrapper's normal end performs
DoneCallbackOnReturn(t) ==
    /\ pc[t] \in {"done", "failed"}
    /\ t \in tasks
    /\ tasks' = tasks \ {t}
    /\ UNCHANGED << state, errors, shutdown_event, collabVars, positionsOpen,
                    close_on_pause, callVars, dayVars, initVars, startPc, mainPc, pc, shutPc,
                    ghostVars >>

\* line 287: the done callback of a completed unit
DoneCallback(t) ==
    /\ pc[t] \in Ended
    /\ t \in tasks
    /\ tasks' = tasks \ {t}
    /\ UNCHANGED << state, errors, shutdown_event, collabVars, positionsOpen,
                    close_on_pause, callVars, dayVars, initVars, startPc, mainPc, pc, shutPc,
                    ghostVars >>

\* --------------------------------------------------------------- shutdown
\* a failed shutdown that leaves the state as it is
ShutdownFailedKeepsState(k) ==
    /\ UNCHANGED state
    /\ shutdown_event' = TRUE
    /\ shutPc' = [shutPc EXCEPT ![k] = "done"]
    /\ saveFailed' = saveFailed \ {k}

\* a failed shutdown that does not raise the completion signal
ShutdownFailedNoSignal(k) ==
    /\ state' = "ERROR"
    /\ UNCHANGED shutdown_event
    /\ shutPc' = [shutPc EXCEPT ![k] = "done"]
    /\ saveFailed' = saveFailed \ {k}

\* lines 552-556: the except and finally branches of shutdown
ShutdownFailed(k) ==
    /\ state' = "ERROR"
    /\ shutdown_event' = TRUE
    /\ shutPc' = [shutPc EXCEPT ![k] = "done"]
    /\ saveFailed' = saveFailed \ {k}

\* lines 549-550 and 555-556: the end of the try block, and finally
ShutdownStopped(k) ==
    /\ state' = "STOPPED"
    /\ shutdown_event' = TRUE
    /\ shutPc' = [shutPc EXCEPT ![k] = "done"]
    /\ saveFailed' = saveFailed \ {k}

\* lines 505-531: _save_state writes the snapshot file when the pair manager exists,
\* and catches every failure of the write
SavedSnapshots(n) == IF managers THEN n + 1 ELSE n

\* lines 525-531: the invocations whose snapshot write raised, after invocation k
\* made its write with outcome w; _save_state logs the failure and returns
SaveOutcome(failed, k, w) ==
    IF managers /\ w = "raise" THEN failed \cup {k} ELSE failed

\* lines 533-547: shutdown(), to its first suspension: STOPPING, the final
\* snapshot (its write returns or raises, w), then the feed's disconnect or the
\* exchange's close is called
ShutdownCall(k, w) ==
    /\ shutPc[k] = "idle"
    /\ k > 1 => shutPc[k - 1] # "idle"
    /\ shutLeft > 0
    /\ shutLeft' = shutLeft - 1
    /\ finalSnapshots' = SavedSnapshots(finalSnapshots)
    /\ IF websocket_feed
       THEN /\ state' = "STOPPING"
            /\ shutPc' = [shutPc EXCEPT ![k] = "disconnect"]
            /\ saveFailed' = SaveOutcome(saveFailed, k, w)
            /\ UNCHANGED shutdown_event
       ELSE IF exchange
            THEN /\ state' = "STOPPING"
                 /\ shutPc' = [shutPc EXCEPT ![k] = "close"]
                 /\ saveFailed' = SaveOutcome(saveFailed, k, w)
                 /\ UNCHANGED shutdown_event
            ELSE ShutdownStopped(k)
    /\ UNCHANGED << errors, tasks, collabVars, positionsOpen, close_on_pause,
                    startLeft, dayVars, initVars, startPc, mainPc, pc, closeCalls,
                    closeReason >>

\* lines 544-547: websocket_feed.disconnect() returned or raised
ShutdownDisconnected(k, r) ==
    /\ shutPc[k] = "disconnect"
    /\ IF r = "ok"
       THEN /\ wsConnected' = FALSE
            /\ shutPc' = [shutPc EXCEPT ![k] = "close"]
            /\ UNCHANGED << state, shutdown_event, saveFailed >>
       ELSE /\ ShutdownFailed(k)
            /\ UNCHANGED wsConnected
    /\ UNCHANGED << errors, tasks, exchange, websocket_feed, managers, exConnected,
                    positionsOpen, close_on_pause, callVars, dayVars, initVars, startPc, mainPc,
                    pc, closeCalls, closeReason, finalSnapshots >>

\* lines 547-556: exchange.close() returned or raised
ShutdownClosed(k, r) ==
    /\ shutPc[k] = "close"
    /\ IF r = "ok"
       THEN /\ exConnected' = FALSE
            /\ ShutdownStopped(k)
       ELSE /\ ShutdownFailed(k)
            /\ UNCHANGED exConnected
    /\ UNCHANGED << errors, tasks, exchange, websocket_feed, managers, wsConnected,
                    positionsOpen, close_on_pause, callVars, dayVars, initVars, startPc, mainPc,
                    pc, closeCalls, closeReason, finalSnapshots >>

\* ------------------------------------------------------------------ loops
SetPc(t, v) == pc' = [pc EXCEPT ![t] = v]

\* loops that stay alive while the bot is stopping
AliveWhileStopping(st) == st \in {"RUNNING", "STOPPING"}

\* loops that stay alive while the bot is paused
AliveWhilePaused(st) == st \in {"RUNNING", "PAUSED"}

\* the liveness condition of the four loops that watch the state,
\* lines 313, 342, 380, 416
StateLoopAlive(st) == st = "RUNNING"

\* a scanner that does not watch the shutdown event
ScannerNeverEnds(ev) == TRUE

\* the liveness condition of the scanner, line 292
ScannerAlive(ev) == ~ev

\* lines 290-297: the scanner's liveness check, then update_watchlist is called; a
\* missing scanner raises into the handler, which sleeps (lines 305-307)
ScannerCycle(t) ==
    /\ t[2] = "Scanner"
    /\ pc[t] = "idle"
    /\ SetPc(t, IF ~ScannerAlive(shutdown_event) THEN "done"
                ELSE IF managers THEN "update_watchlist" ELSE "idle")
    /\ UNCHANGED << state, errors, shutdown_event, tasks, collabVars, positionsOpen,
                    close_on_pause, callVars, dayVars, initVars, startPc, mainPc, shutPc,
                    ghostVars >>

\* lines 297-300: update_watchlist returned (update_all is called) or raised
ScannerWatchlist(t, r) ==
    /\ pc[t] = "update_watchlist"
    /\ SetPc(t, IF r = "ok" THEN "update_all" ELSE "idle")
    /\ UNCHANGED << state, errors, shutdown_event, tasks, collabVars, positionsOpen,
                    close_on_pause, callVars, dayVars, initVars, startPc, mainPc, shutPc,
                    ghostVars >>

\* lines 300-307: update_all returned or raised; the loop sleeps
ScannerUpdated(t) ==
    /\ pc[t] = "update_all"
    /\ SetPc(t, "idle")
    /\ UNCHANGED << state, errors, shutdown_event, tasks, collabVars, positionsOpen,
                    close_on_pause, callVars, dayVars, initVars, startPc, mainPc, shutPc,
                    ghostVars >>

\* lines 309-316: the strategy loop's liveness check, then update_market_data is called
StrategyCycle(t) ==
    /\ t[2] = "Strategy"
    /\ pc[t] = "idle"
    /\ SetPc(t, IF ~StateLoopAlive(state) THEN "done"
                ELSE IF managers THEN "update_market_data" ELSE "idle")
    /\ UNCHANGED << state, errors, shutdown_event, tasks, collabVars, positionsOpen,
                    close_on_pause, callVars, dayVars, initVars, startPc, mainPc, shutPc,
                    ghostVars >>

\* lines 316-319: update_market_data returned (check_signals is called) or raised
StrategyUpdated(t, r) ==
    /\ pc[t] = "update_market_data"
    /\ SetPc(t, IF r = "ok" THEN "check_signals" ELSE "idle")
    /\ UNCHANGED << state, errors, shutdown_event, tasks, collabVars, positionsOpen,
                    close_on_pause, callVars, dayVars, initVars, startPc, mainPc, shutPc,
                    ghostVars >>

\* lines 319-336: check_signals returned signals (execute_signals is called), returned
\* none (the loop sleeps) or raised
StrategyChecked(t, r) ==
    /\ pc[t] = "check_signals"
    /\ SetPc(t, IF r = "signals" THEN "execute_signals" ELSE "idle")
    /\ UNCHANGED << state, errors, shutdown_event, tasks, collabVars, positionsOpen,
                    close_on_pause, callVars, dayVars, initVars, startPc, mainPc, shutPc,
                    ghostVars >>

\* lines 325-336: execute_signals returned or raised, having opened or closed
\* positions; the loop sleeps
StrategyExecuted(t, open) ==
    /\ pc[t] = "execute_signals"
    /\ positionsOpen' = open
    /\ SetPc(t, "idle")
    /\ UNCHANGED << state, errors, shutdown_event, tasks, collabVars, close_on_pause, callVars,
                    dayVars, initVars, startPc, mainPc, shutPc, ghostVars >>

\* the breaker tripping at the warning threshold
IsCriticalAtWarning(dd) == dd > WarnDrawdown

\* line 352: the critical drawdown test
IsCritical(dd) == dd > CriticalDrawdown

\* _pause_trading liquidating whatever the option says
ClosesAlways(opt) == TRUE

\* line 474: whether _pause_trading liquidates
ClosesOnPause(opt) == opt

\* lines 338-374 and 468-475: the risk monitor's liveness check, the risk snapshot
\* (drawdown dd, daily loss ratio loss, percent), the circuit breaker, the
\* trailing stops; the loop then sleeps, or is suspended in close_all_positions
RiskCycle(t, dd, loss) ==
    /\ t[2] = "Risk Monitor"
    /\ pc[t] = "idle"
    /\ IF ~StateLoopAlive(state)
       THEN /\ SetPc(t, "done")
            /\ UNCHANGED << state, closeCalls, closeReason >>
       ELSE IF managers /\ IsCritical(dd)
            THEN /\ state' = "PAUSED"
                 /\ IF ClosesOnPause(close_on_pause)
                    THEN /\ closeCalls' = IF closeCalls < 2 THEN closeCalls + 1 ELSE closeCalls
                         /\ closeReason' = PauseReason
                         /\ SetPc(t, "close_all_positions")
                    ELSE /\ SetPc(t, "idle")
                         /\ UNCHANGED << closeCalls, closeReason >>
            ELSE /\ SetPc(t, "idle")
                 /\ UNCHANGED << state, closeCalls, closeReason >>
    /\ UNCHANGED << errors, shutdown_event, tasks, collabVars, positionsOpen,
                    close_on_pause, callVars, dayVars, initVars, startPc, mainPc, shutPc,
                    finalSnapshots, saveFailed >>

\* lines 354-374: close_all_positions returned (no position left) or raised (open
\* tells whether positions are left); the loop sleeps
RiskClosed(t, open) ==
    /\ pc[t] = "close_all_positions"
    /\ open => positionsOpen
    /\ positionsOpen' = open
    /\ SetPc(t, "idle")
    /\ UNCHANGED << state, errors, shutdown_event, tasks, collabVars, close_on_pause, callVars,
                    dayVars, initVars, startPc, mainPc, shutPc, ghostVars >>

\* lines 376-410: the performance tracker's liveness check and its cycle, which
\* does not suspend before its sleep (_save_state has no suspension point)
PerformanceCycle(t) ==
    /\ t[2] = "Performance"
    /\ pc[t] = "idle"
    /\ SetPc(t, IF ~StateLoopAlive(state) THEN "done" ELSE "idle")
    /\ UNCHANGED << state, errors, shutdown_event, tasks, collabVars, positionsOpen,
                    close_on_pause, callVars, dayVars, initVars, startPc, mainPc, shutPc,
                    ghostVars >>

\* a trim that fires one entry late
TrimErrorsLate(errs) ==
    IF Len(errs) > ErrorsCap + 1
    THEN SubSeq(errs, Len(errs) - ErrorsKeep + 1, Len(errs))
    ELSE errs

\* lines 434-435: the health check's trim of the errors list
TrimErrors(errs) ==
    IF Len(errs) > ErrorsCap
    THEN SubSeq(errs, Len(errs) - ErrorsKeep + 1, Len(errs))
    ELSE errs

\* lines 494-503: the date _check_daily_reset leaves in _last_daily_reset
DailyReset(last, now) == IF last = 0 \/ now > last THEN now ELSE last

\* a daily reset that does not compare the dates
CheckDailyResetUndated(d) ==
    IF lastDailyReset # 0
    THEN /\ resetsToday < MaxResets
         /\ resetsToday' = resetsToday + 1
         /\ lastDailyReset' = IF managers /\ d = "ok" THEN today ELSE lastDailyReset
    ELSE /\ lastDailyReset' = DailyReset(lastDailyReset, today)
         /\ UNCHANGED resetsToday

\* lines 494-503: _check_daily_reset when reset_daily_counters() returns (d = "ok") or
\* raises (d = "raise", as it does without a risk manager): the first call only
\* records the date; a later date invokes the reset, and the date is recorded after
\* the reset returned
CheckDailyReset(d) ==
    IF lastDailyReset # 0 /\ today > lastDailyReset
    THEN /\ resetsToday < MaxResets
         /\ resetsToday' = resetsToday + 1
         /\ lastDailyReset' = IF managers /\ d = "ok"
                              THEN DailyReset(lastDailyReset, today)
                              ELSE lastDailyReset
    ELSE /\ lastDailyReset' = DailyReset(lastDailyReset, today)
         /\ UNCHANGED resetsToday

\* lines 433-440: the end of a health check cycle: trim, daily reset, sleep
HealthTail(t) ==
    /\ errors' = TrimErrors(errors)
    /\ \E d \in {"ok", "raise"} : CheckDailyReset(d)
    /\ SetPc(t, "idle")

\* the date the cycle of t began, kept while the cycle is suspended in a connect()
CycleDay(t) ==
    cycleDay' = [cycleDay EXCEPT ![t[1]] =
                    IF pc'[t] \in {"feed_connect", "exchange_connect"}
                    THEN (IF pc[t] = "idle" THEN today ELSE @)
                    ELSE 0]

\* lines 428-440: the exchange check of a health check cycle
HealthExchange(t) ==
    IF ~exConnected
    THEN /\ SetPc(t, "exchange_connect")
         /\ UNCHANGED << errors, resetVars >>
    ELSE HealthTail(t)

\* lines 412-444: the health check's liveness check, then the feed check; a missing
\* feed raises into the handler, which sleeps
HealthCycle(t) ==
    /\ t[2] = "Health Check"
    /\ pc[t] = "idle"
    /\ IF ~StateLoopAlive(state)
       THEN /\ SetPc(t, "done")
            /\ UNCHANGED << errors, resetVars >>
       ELSE IF ~websocket_feed
            THEN /\ SetPc(t, "idle")
                 /\ UNCHANGED << errors, resetVars >>
            ELSE IF ~wsConnected
                 THEN /\ SetPc(t, "feed_connect")
                      /\ UNCHANGED << errors, resetVars >>
                 ELSE HealthExchange(t)
    /\ CycleDay(t)
    /\ UNCHANGED << state, shutdown_event, tasks, collabVars, positionsOpen,
                    close_on_pause, callVars, today, initVars, startPc, mainPc, shutPc,
                    ghostVars >>

\* lines 422-444: websocket_feed.connect() returned r or raised
HealthFeedConnected(t, r) ==
    /\ pc[t] = "feed_connect"
    /\ wsConnected' = (wsConnected \/ r = "ok")
    /\ IF r = "raise"
       THEN /\ SetPc(t, "idle")
            /\ UNCHANGED << errors, resetVars >>
       ELSE HealthExchange(t)
    /\ CycleDay(t)
    /\ UNCHANGED << state, shutdown_event, tasks, exchange, websocket_feed, managers,
                    exConnected, positionsOpen, close_on_pause, callVars, today, initVars,
                    startPc, mainPc, shutPc, ghostVars >>

\* lines 431-444: exchange.connect() returned r or raised
HealthExchangeConnected(t, r) ==
    /\ pc[t] = "exchange_connect"
    /\ exConnected' = (exConnected \/ r = "ok")
    /\ IF r = "raise"
       THEN /\ SetPc(t, "idle")
            /\ UNCHANGED << errors, resetVars >>
       ELSE HealthTail(t)
    /\ CycleDay(t)
    /\ UNCHANGED << state, shutdown_event, tasks, exchange, websocket_feed, managers,
                    wsConnected, positionsOpen, close_on_pause, callVars, today, initVars,
                    startPc, mainPc, shutPc, ghostVars >>

\* line 419: the feed loses its connection between two health checks
FeedDrops ==
    /\ websocket_feed /\ wsConnected
    /\ wsConnected' = FALSE
    /\ UNCHANGED << state, errors, shutdown_event, tasks, exchange, websocket_feed,
                    managers, exConnected, positionsOpen, close_on_pause, callVars,
                    dayVars, initVars, startPc, mainPc, pc, shutPc, ghostVars >>

\* line 429: the exchange loses its connection between two health checks
ExchangeDrops ==
    /\ exchange /\ exConnected
    /\ exConnected' = FALSE
    /\ UNCHANGED << state, errors, shutdown_event, tasks, exchange, websocket_feed,
                    managers, wsConnected, positionsOpen, close_on_pause, callVars,
                    dayVars, initVars, startPc, mainPc, pc, shutPc, ghostVars >>

\* line 496: datetime.now() reaches the next calendar date
DayPasses ==
    /\ today < MaxDay
    /\ today' = today + 1
    /\ resetsToday' = 0
    /\ UNCHANGED << state, errors, shutdown_event, tasks, collabVars, positionsOpen,
                    close_on_pause, callVars, lastDailyReset, cycleDay, initVars,
                    startPc, mainPc, pc, shutPc, ghostVars >>

\* the suspension points of the loops inside their try blocks
InCall == {"update_watchlist", "update_all", "update_market_data", "check_signals",
           "execute_signals", "close_all_positions", "feed_connect",
           "exchange_connect"}

\* lines 281-283 (and the loops' handlers, e.g. 305-307): an exception that the loop's
\* handler does not contain (raised outside its try block, as at line 311, or while
\* the handler runs) leaves the loop, and the monitored wrapper records it; the
\* wrapper's own two statements (a log line and a list append) do not raise
LoopEscape(t) ==
    /\ \/ pc[t] \in InCall
       \/ /\ pc[t] = "idle"
          /\ IF t[2] = "Scanner" THEN ScannerAlive(shutdown_event)
                                 ELSE StateLoopAlive(state)
    /\ SetPc(t, Monitored("raise"))
    /\ errors' = IF Monitored("raise") = "failed"
                 THEN Append(errors, t[2] \o ": " \o RaisedMsg)
                 ELSE errors
    /\ UNCHANGED << state, shutdown_event, tasks, collabVars, positionsOpen,
                    close_on_pause, callVars, dayVars, initVars, startPc, mainPc, shutPc,
                    ghostVars >>

\* lines 278-280: a unit suspended in a call or in its sleep is cancelled; the
\* cancellation leaves the loop (it is no Exception) and the wrapper raises it again
Cancelled(t) ==
    /\ pc[t] \in InCall \cup {"idle"}
    /\ SetPc(t, Monitored("cancel"))
    /\ UNCHANGED << state, errors, shutdown_event, tasks, collabVars, positionsOpen,
                    close_on_pause, callVars, dayVars, initVars, startPc, mainPc, shutPc,
                    ghostVars >>

\* -------------------------------------------------------- specifications
Initialize ==
    \/ InitializeCall
    \/ \E r \in {"ok", "false", "raise"} : InitializeExchange(r)
    \/ \E r \in {"ok", "false", "raise"} : InitializeFeed(r)
    \/ \E r \in {"ok", "raise"} : InitializeData(r)

\* start, the main task and shutdown
Calls ==
    \/ \E c \in Callers : StartCall(c)
    \/ \E c \in Callers : StartReturn(c)
    \/ \E c \in Callers : MainLoopRun(c)
    \/ \E k \in Shutdowns, w \in {"ok", "raise"} : ShutdownCall(k, w)
    \/ \E k \in Shutdowns, r \in {"ok", "raise"} : ShutdownDisconnected(k, r)
    \/ \E k \in Shutdowns, r \in {"ok", "raise"} : ShutdownClosed(k, r)

\* initialize, start, the main task and shutdown
Lifecycle ==
    \/ Initialize
    \/ Calls

ScannerLoop ==
    \/ \E t \in Tasks : ScannerCycle(t)
    \/ \E t \in Tasks, r \in {"ok", "raise"} : ScannerWatchlist(t, r)
    \/ \E t \in Tasks : ScannerUpdated(t)

StrategyLoop ==
    \/ \E t \in Tasks : StrategyCycle(t)
    \/ \E t \in Tasks, r \in {"ok", "raise"} : StrategyUpdated(t, r)
    \/ \E t \in Tasks, r \in {"signals", "none", "raise"} : StrategyChecked(t, r)
    \/ \E t \in Tasks, open \in BOOLEAN : StrategyExecuted(t, open)

RiskLoop ==
    \/ \E t \in Tasks, dd \in Drawdowns, loss \in DailyLosses : RiskCycle(t, dd, loss)
    \/ \E t \in Tasks, open \in BOOLEAN : RiskClosed(t, open)

PerformanceLoop == \E t \in Tasks : PerformanceCycle(t)

HealthLoop ==
    \/ \E t \in Tasks : HealthCycle(t)
    \/ \E t \in Tasks, r \in {"ok", "false", "raise"} : HealthFeedConnected(t, r)
    \/ \E t \in Tasks, r \in {"ok", "false", "raise"} : HealthExchangeConnected(t, r)

\* The bot with its five loops, for one start() and one shutdown()
Init == Fresh(MaxInit, FullStarts, FullShutdowns)

Next ==
    \/ Lifecycle
    \/ \E c \in Callers : MainLoopDone(c)
    \/ \E t \in Tasks : DoneCallback(t)
    \/ ScannerLoop
    \/ StrategyLoop
    \/ RiskLoop
    \/ PerformanceLoop
    \/ HealthLoop

Spec == Init /\ [][Next]_vars

\* The lifecycle under repeated start() and overlapping shutdown(), of a bot that
\* was only constructed or whose initialize() has returned True: the loops that only
\* read the state stay asleep, the risk monitor (which writes it) runs
InitLife ==
    \/ Fresh(0, MaxStart, MaxShutdown)
    \/ Ready(MaxStart, MaxShutdown)

NextLife ==
    \/ Calls
    \/ RiskLoop

SpecLife == InitLife /\ [][NextLife]_vars

\* The same, with the collaborators' disconnect and close calls returning and a woken
\* start() being run
SpecLifeFair ==
    /\ SpecLife
    /\ \A k \in Shutdowns :
          WF_vars(\E r \in {"ok", "raise"} :
                     ShutdownDisconnected(k, r) \/ ShutdownClosed(k, r))
    /\ \A c \in Callers : WF_vars(StartReturn(c))

\* The circuit breaker against the strategy loop, on an initialised bot
InitRisk == Ready(RiskStarts, RiskShutdowns)

NextRisk ==
    \/ Calls
    \/ StrategyLoop
    \/ RiskLoop

SpecRisk == InitRisk /\ [][NextRisk]_vars

\* The errors list near its cap: the bot after ErrPrefill calls of initialize() that
\* each failed at the feed's connect (lines 152-153 and 190-194); only the health
\* check loop is scheduled
InitErrors ==
    /\ InitWith(MaxInitErr, ErrStarts, 0, [i \in 1..ErrPrefill |-> FeedFailMsg], "ERROR")
    /\ initResult = "false"
    /\ exchange = TRUE
    /\ websocket_feed = TRUE
    /\ managers = FALSE
    /\ exConnected = TRUE
    /\ wsConnected = FALSE

NextErrors ==
    \/ Initialize
    \/ \E c \in Callers : StartCall(c)
    \/ \E c \in Callers : MainLoopRun(c)
    \/ HealthLoop
    \/ \E t \in Tasks : t[2] = "Health Check" /\ LoopEscape(t)

SpecErrors == InitErrors /\ [][NextErrors]_vars

\* The initializer against start() and shutdown(), no loop scheduled
InitInit == Fresh(InitCalls, InitStarts, InitShutdowns)

NextInit ==
    \/ Initialize
    \/ Calls

SpecInit == InitInit /\ [][NextInit]_vars

\* The task supervisor: an initialised bot is started, its five loops run, and up
\* to MaxAbnormal units end by a failure that leaves the loop or by a cancellation
Abnormal == Cardinality({t \in Tasks : pc[t] \in {"failed", "cancelled", "raised"}})

InitSup == Ready(SupStarts, 0)

NextSup ==
    \/ \E c \in Callers : StartCall(c)
    \/ \E c \in Callers : MainLoopRun(c)
    \/ \E c \in Callers : MainLoopDone(c)
    \/ \E t \in Tasks : DoneCallback(t)
    \/ ScannerLoop
    \/ StrategyLoop
    \/ RiskLoop
    \/ PerformanceLoop
    \/ \E t \in Tasks : HealthCycle(t)
    \/ \E t \in Tasks : Abnormal < MaxAbnormal /\ LoopEscape(t)
    \/ \E t \in Tasks : Abnormal < MaxAbnormal /\ Cancelled(t)

SpecSup == InitSup /\ [][NextSup]_vars

\* The same, with the event loop running the done callbacks it has scheduled
SpecSupFair == SpecSup /\ WF_vars(\E t \in Tasks : DoneCallback(t))

\* The five loops of a bot whose connections dropped, with collaborator calls that
\* raise and exceptions that leave a loop
InitContain == ReadyUp(ContainStarts, 0, FALSE)

NextContain ==
    \/ \E c \in Callers : StartCall(c)
    \/ \E c \in Callers : MainLoopRun(c)
    \/ \E c \in Callers : MainLoopDone(c)
    \/ ScannerLoop
    \/ StrategyLoop
    \/ RiskLoop
    \/ PerformanceLoop
    \/ HealthLoop
    \/ \E t \in Tasks : Len(errors) < MaxEscapes /\ LoopEscape(t)

SpecContain == InitContain /\ [][NextContain]_vars

\* The health check of a running bot whose connections drop, over several days
InitHealth == Ready(HealthStarts, 0)

NextHealth ==
    \/ \E c \in Callers : StartCall(c)
    \/ \E c \in Callers : MainLoopRun(c)
    \/ HealthLoop
    \/ FeedDrops
    \/ ExchangeDrops
    \/ DayPasses

SpecHealth == InitHealth /\ [][NextHealth]_vars

\* A running bot whose connections dropped, shut down and not started again; the
\* close-on-pause option is on, which gives the risk monitor its suspension point
InitStop == Running(StopShutdowns, FALSE) /\ close_on_pause

\* the steps of the units, of their done callbacks and of the main task
Wind ==
    \/ ScannerLoop
    \/ StrategyLoop
    \/ RiskLoop
    \/ PerformanceLoop
    \/ HealthLoop
    \/ \E t \in Tasks : DoneCallback(t)
    \/ \E c \in Callers : MainLoopDone(c)

NextStop ==
    \/ \E k \in Shutdowns, w \in {"ok", "raise"} : ShutdownCall(k, w)
    \/ \E k \in Shutdowns, r \in {"ok", "raise"} : ShutdownDisconnected(k, r)
    \/ \E k \in Shutdowns, r \in {"ok", "raise"} : ShutdownClosed(k, r)
    \/ Wind

SpecStop == InitStop /\ [][NextStop]_vars

\* The same, with the event loop running a unit, a callback or the main task whenever
\* one of them can run: collaborator calls and sleeps return
SpecStopFair == SpecStop /\ WF_vars(Wind)

\* The circuit breaker against initialize(), start() and shutdown()
InitPause == Fresh(PauseInits, PauseStarts, PauseShutdowns)

NextPause ==
    \/ Initialize
    \/ Calls
    \/ RiskLoop

SpecPause == InitPause /\ [][NextPause]_vars

\* A bot that is started, shut down and started again, with the scanner, the
\* strategy loop and the performance tracker running (the risk monitor and the health
\* check stay asleep in their intervals)
InitRestart == Ready(RestartStarts, RestartShutdowns)

NextRestart ==
    \/ Calls
    \/ ScannerLoop
    \/ StrategyLoop
    \/ PerformanceLoop
    \/ \E t \in Tasks : DoneCallback(t)

SpecRestart == InitRestart /\ [][NextRestart]_vars

\* The health check of a bot whose feed drops, against shutdown()
InitHalt == Ready(HaltStarts, HaltShutdowns)

NextHalt ==
    \/ Calls
    \/ HealthLoop
    \/ FeedDrops

SpecHalt == InitHalt /\ [][NextHalt]_vars

\* ------------------------------------------------------------------ claims
Final == {"STOPPED", "ERROR"}

\* C1: start() invoked while the state is RUNNING, PAUSED, STOPPING or INITIALIZING
\* leaves the state unchanged, creates no main task and no loop unit, and has
\* returned (it does not wait, and it never becomes a start later)
C1_StartIsNoOp ==
    [][\A c \in Callers :
          /\ (startPc[c] = "idle" /\ startPc'[c] # "idle" /\ state \notin Final)
                => /\ state' = state
                   /\ tasks' = tasks
                   /\ mainPc' = mainPc
                   /\ pc' = pc
                   /\ startPc'[c] = "rejected"
          /\ startPc[c] = "rejected"
                => /\ startPc'[c] = "rejected"
                   /\ mainPc'[c] = "none"
                   /\ \A l \in Loops : pc'[<< c, l >>] = "absent"]_vars

\* a start() was rejected while another start's bot is paused
C1_Witness ==
    \E c \in Callers : startPc[c] = "rejected" /\ state = "PAUSED"

\* C2: while the state is PAUSED no monitoring loop (risk monitor, performance
\* tracker, health check, scanner) ends at its liveness check
C2_MonitoringSurvivesPause ==
    [][\A t \in Tasks :
          (/\ t[2] \in {"Risk Monitor", "Performance", "Health Check", "Scanner"}
           /\ state = "PAUSED"
           /\ pc[t] \notin {"absent", "done", "failed"})
             => pc'[t] # "done"]_vars

\* C3: no call of execute_signals begins while the state is PAUSED
C3_NoExecuteWhilePaused ==
    [][\A t \in Tasks :
          (pc[t] # "execute_signals" /\ pc'[t] = "execute_signals")
             => state # "PAUSED"]_vars

\* C4: a risk monitor cycle that got a risk snapshot changes the state if and only
\* if the drawdown is above 20 percent, and then to PAUSED; at or below 20 percent,
\* whatever the daily loss ratio, the state stays RUNNING, close_all_positions is
\* not invoked and the positions are left as they are
C4_PausesOnlyAboveCritical ==
    [][\A t \in Tasks, dd \in Drawdowns, loss \in DailyLosses :
          (RiskCycle(t, dd, loss) /\ state = "RUNNING" /\ managers)
             => /\ (state' # state) <=> (dd > 20)
                /\ state' \in {"RUNNING", "PAUSED"}
                /\ dd <= 20 => /\ state' = "RUNNING"
                               /\ closeCalls' = closeCalls
                               /\ positionsOpen' = positionsOpen
                               /\ pc'[t] = "idle"]_vars

\* the breaker has tripped with the option to liquidate off
C4_Witness ==
    /\ state = "PAUSED"
    /\ ~close_on_pause
    /\ \E t \in Tasks : t[2] = "Risk Monitor" /\ pc[t] = "idle"

C6_LiquidatesOncePerPause == closeCalls <= 1

\* two risk monitor instances are live, one has liquidated, the other has seen PAUSED
C6_Witness ==
    /\ closeCalls = 1
    /\ pc[<< 1, "Risk Monitor" >>] = "done"
    /\ pc[<< 2, "Risk Monitor" >>] = "close_all_positions"

\* C7 (as claimed): the errors list never holds more than 100 entries
C7_AtMostCapAfterAppend == Len(errors) <= 100

\* C7 (amended): the errors list holds at most 100 entries right after the trim step
\* of a health check cycle, which cuts a list of more than 100 entries to its last
\* 50, in order; an append does not trim
C7_AtMostCapAfterTrim ==
    [][\A t \in Tasks :
          (t[2] = "Health Check" /\ pc[t] # "absent" /\ HealthTail(t))
             => /\ Len(errors') <= 100
                /\ Len(errors) > 100
                     => /\ Len(errors') = 50
                        /\ \A i \in 1..50 :
                              errors'[i] = errors[Len(errors) - 50 + i]]_vars

\* a trim has cut the list
C7_Witness == Len(errors) = 50

\* a step in which some start() call is made
StartStep == \E c \in Callers : startPc[c] = "idle" /\ startPc'[c] # "idle"

\* C8: every shutdown() invocation that began ends, and from the step that ends the
\* last of them the state is STOPPED or ERROR until a start() is called
C8_OverlappingShutdownsEnd ==
    /\ [][(/\ \A k \in Shutdowns : shutPc'[k] = "done"
           /\ ~StartStep
           /\ (\E k \in Shutdowns : shutPc[k] # "done") \/ state \in Final)
             => state' \in Final]_vars
    /\ \A k \in Shutdowns : (shutPc[k] # "idle") ~> (shutPc[k] = "done")

\* both invocations have run their teardown since the last start and have ended
C8_Witness ==
    /\ \A k \in Shutdowns : shutPc[k] = "done"
    /\ finalSnapshots = 2
    /\ state = "STOPPED"

\* C9: while a shutdown() invocation is still executing, no second final snapshot
\* has been written since the last start
C9_OneFinalSnapshot ==
    (\E k \in Shutdowns : shutPc[k] \in {"disconnect", "close"})
       => finalSnapshots <= 1

\* C10: a shutdown() invocation that has ended has raised the completion signal,
\* the signal is never cleared, and a start() that waits returns once a shutdown()
\* has been invoked
C10_CompletionSignalled ==
    /\ [](\A k \in Shutdowns : shutPc[k] = "done" => shutdown_event)
    /\ [][shutdown_event => shutdown_event']_vars
    /\ \A c \in Callers :
          (startPc[c] = "waiting" /\ \E k \in Shutdowns : shutPc[k] # "idle")
             ~> (startPc[c] = "returned")

\* a start() has returned after a shutdown() whose teardown failed
C10_Witness ==
    /\ startPc[1] = "returned"
    /\ shutPc[1] = "done"
    /\ shutPc[2] = "idle"
    /\ state = "ERROR"
    /\ initPc = "idle"
    /\ errors = << >>

\* C11: the steps of a shutdown() run in the order STOPPING, snapshot, feed
\* disconnect, exchange close, STOPPED; the invocation ends with the state ERROR if
\* one of them failed (the snapshot write, the disconnect or the close) and with
\* STOPPED only if none did
C11_FailedStepEndsError ==
    [][\A k \in Shutdowns :
          /\ (shutPc[k] = "idle" /\ shutPc'[k] \in {"disconnect", "close"})
                => /\ state' = "STOPPING"
                   /\ finalSnapshots' = SavedSnapshots(finalSnapshots)
                   /\ shutPc'[k] = "close" => ~websocket_feed
          /\ (shutPc[k] # "disconnect" /\ shutPc'[k] = "disconnect")
                => shutPc[k] = "idle"
          /\ (shutPc[k] # "close" /\ shutPc'[k] = "close")
                => shutPc[k] \in {"idle", "disconnect"}
          /\ (shutPc[k] # "done" /\ shutPc'[k] = "done")
                => /\ state' \in {"STOPPED", "ERROR"}
                   /\ state' = "ERROR"
                         <=> \/ k \in saveFailed
                             \/ ShutdownDisconnected(k, "raise")
                             \/ ShutdownClosed(k, "raise")]_vars

\* C12: a monitored unit is in the live set from its spawn until it completes; it is
\* added only at its spawn, removed only once it has completed (normally, by
\* cancellation or by failure) and then is removed, so that in the end no completed
\* unit is left in the set; a completed unit is never restarted or added again
C12_LiveUntilCompleted ==
    /\ [](\A t \in Tasks : pc[t] \notin Ended \cup {"absent"} => t \in tasks)
    /\ [][\A t \in Tasks :
            /\ (t \in tasks /\ t \notin tasks') => pc[t] \in Ended
            /\ (t \notin tasks /\ t \in tasks') => (pc[t] = "absent" /\ pc'[t] = "idle")
            /\ pc[t] \in Ended => pc'[t] = pc[t]]_vars
    /\ <>[](\A t \in Tasks : pc[t] \in Ended => t \notin tasks)

\* a cancelled unit and a unit that ended at its liveness check have been removed,
\* while other units are live
C12_Witness ==
    /\ pc[<< 1, "Scanner" >>] = "cancelled"
    /\ pc[<< 1, "Risk Monitor" >>] = "done"
    /\ << 1, "Scanner" >> \notin tasks
    /\ << 1, "Risk Monitor" >> \notin tasks
    /\ << 1, "Strategy" >> \in tasks

\* C13: initialize() runs exchange connect, feed connect, market data in that order;
\* a step that fails (raises, or a connect that returns false) ends the call: no
\* later step runs, the state becomes ERROR, one message is appended to errors, the
\* call returns false and no collaborator is torn down; the call returns true, the
\* state STOPPED and errors as it was, only from its last step
C13_StopsAtFirstFailure ==
    [][/\ (initPc # "exchange_connect" /\ initPc' = "exchange_connect")
             => (initPc = "idle" /\ state' = state /\ errors' = errors)
       /\ (initPc # "feed_connect" /\ initPc' = "feed_connect")
             => (initPc = "exchange_connect" /\ state' = state /\ errors' = errors)
       /\ (initPc # "market_data" /\ initPc' = "market_data")
             => (initPc = "feed_connect" /\ state' = state /\ errors' = errors)
       /\ (\/ \E r \in {"false", "raise"} : InitializeExchange(r) \/ InitializeFeed(r)
           \/ InitializeData("raise"))
             => /\ initPc' = "idle"
                /\ initResult' = "false"
                /\ state' = "ERROR"
                /\ Len(errors') = Len(errors) + 1
                /\ SubSeq(errors', 1, Len(errors)) = errors
                /\ UNCHANGED collabVars
       /\ (initPc # "idle" /\ initPc' = "idle" /\ initResult' # "false")
             => /\ initPc = "market_data"
                /\ initResult' = "true"
                /\ state' = "STOPPED"
                /\ errors' = errors]_vars

\* the call failed at the feed's connect: the exchange it connected is left connected
C13_Witness ==
    /\ initPc = "idle"
    /\ initResult = "false"
    /\ state = "ERROR"
    /\ errors = << FeedFailMsg >>
    /\ exchange /\ exConnected
    /\ websocket_feed /\ ~wsConnected
    /\ ~managers

\* one step of a health check unit, where the exchange is taken to report its status
\* after a feed connect with an outcome in the set outcomes
C14_Step(outcomes) ==
    \A t \in Tasks : t[2] = "Health Check" =>
        /\ (pc[t] # "feed_connect" /\ pc'[t] = "feed_connect")
              => (pc[t] = "idle" /\ ~wsConnected)
        /\ (HealthCycle(t) /\ StateLoopAlive(state) /\ websocket_feed)
              => (pc'[t] = "feed_connect" <=> ~wsConnected)
        /\ (pc[t] # "exchange_connect" /\ pc'[t] = "exchange_connect")
              => (pc[t] \in {"idle", "feed_connect"} /\ ~exConnected)
        /\ (\/ HealthCycle(t) /\ StateLoopAlive(state) /\ websocket_feed /\ wsConnected
            \/ \E r \in outcomes : HealthFeedConnected(t, r))
              => (pc'[t] = "exchange_connect" <=> ~exConnected)
        /\ (pc[t] = "feed_connect" /\ pc'[t] # pc[t])
              => pc'[t] \in {"exchange_connect", "idle"}
        /\ (pc[t] = "exchange_connect" /\ pc'[t] # pc[t]) => pc'[t] = "idle"

\* C14: in one health check cycle a collaborator that reports disconnected has its
\* connect invoked exactly once and one that reports connected has it invoked zero
\* times: feed connect is entered only at the start of a cycle, exactly when the feed
\* reports disconnected; exchange connect is entered only from the start or from the
\* feed connect, exactly when the exchange is disconnected once the feed check is
\* over, however the feed connect ended; a connect that failed is followed by the
\* rest of the cycle, never by a second connect of the same collaborator, and the
\* next cycle decides again from the status alone
C14_OneConnectPerCycle == [][C14_Step({"ok", "false", "raise"})]_vars

\* C14, in the cycles that reach line 429: the same, where the exchange reports only
\* after a feed connect that returned
C14_OneConnectWhenQueried == [][C14_Step({"ok", "false"})]_vars

\* the step in which the health check cycle of t ends, however it ends
C15_CycleEnds(t) ==
    /\ t[2] = "Health Check"
    /\ pc'[t] = "idle"
    /\ \/ HealthCycle(t)
       \/ \E r \in {"ok", "false", "raise"} : HealthFeedConnected(t, r)
       \/ \E r \in {"ok", "false", "raise"} : HealthExchangeConnected(t, r)

\* the step in which the health check cycle of t reaches line 438
C15_ReachesReset(t) ==
    /\ t[2] = "Health Check"
    /\ pc'[t] = "idle"
    /\ \/ HealthCycle(t) /\ StateLoopAlive(state) /\ websocket_feed
       \/ \E r \in {"ok", "false"} : HealthFeedConnected(t, r)
       \/ \E r \in {"ok", "false"} : HealthExchangeConnected(t, r)

\* C15 as claimed: reset_daily_counters() is invoked at most once per calendar date,
\* and a cycle that began on a date later than the recorded date of the last reset
\* invokes it before it ends
C15_OncePerDate ==
    /\ [](resetsToday <= 1)
    /\ [][\A t \in Tasks :
            (/\ C15_CycleEnds(t)
             /\ lastDailyReset # 0
             /\ lastDailyReset < (IF pc[t] = "idle" THEN today ELSE cycleDay[t[1]]))
                => resetsToday' = resetsToday + 1]_vars

\* C15, amended: reset_daily_counters() is invoked only on a date later than the
\* recorded one, by a cycle that reaches its daily reset step, and every such cycle
\* invokes it; an invocation that returns records the date, after which no other is
\* made on that date, and an invocation that raises leaves the recorded date as it
\* was
C15_ResetWhenDateAdvanced ==
    [][/\ resetsToday' = resetsToday + 1
            => /\ lastDailyReset # 0 /\ lastDailyReset < today
               /\ lastDailyReset' \in {lastDailyReset, today}
               /\ \E t \in Tasks : C15_ReachesReset(t)
       /\ lastDailyReset = today => (resetsToday' = resetsToday \/ today' # today)
       /\ \A t \in Tasks :
             (C15_ReachesReset(t) /\ lastDailyReset # 0 /\ lastDailyReset < today)
                => resetsToday' = resetsToday + 1]_vars

\* on the third date the reset raised once and then returned
C15_Witness ==
    /\ today = 3
    /\ lastDailyReset = 3
    /\ resetsToday = 2

\* the edges of the specified lifecycle graph
C16_Edges ==
    {<< "INITIALIZING", "STOPPED" >>, << "STOPPED", "RUNNING" >>, << "ERROR", "RUNNING" >>,
     << "RUNNING", "PAUSED" >>, << "RUNNING", "STOPPING" >>, << "STOPPING", "STOPPED" >>}
    \cup {<< s, "ERROR" >> : s \in {"INITIALIZING", "RUNNING", "PAUSED", "STOPPING",
                                     "STOPPED"}}

\* C16: every change of the lifecycle state is an edge of the specified graph
C16_OnlyGraphEdges == [][state' # state => << state, state' >> \in C16_Edges]_vars

\* C17: failures are contained at the loop boundary: a collaborator call that raises
\* in a cycle ends the cycle and leaves the state, the errors and the main loop as
\* they are; an exception that leaves a loop is recorded as "<name>: <message>" by
\* its monitored unit, which completes without one; so gather never raises an
\* Exception, the main loop's handler is never entered and the state is never ERROR
C17_FailuresContained ==
    /\ [](state # "ERROR" /\ \A c \in Callers : mainPc[c] # "error")
    /\ [](\A t \in Tasks : pc[t] # "raised")
    /\ [][\A t \in Tasks :
            /\ (\/ ScannerWatchlist(t, "raise")
                \/ StrategyUpdated(t, "raise")
                \/ StrategyChecked(t, "raise")
                \/ HealthFeedConnected(t, "raise")
                \/ HealthExchangeConnected(t, "raise"))
                  => /\ pc'[t] = "idle"
                     /\ UNCHANGED << state, errors, mainPc >>
            /\ LoopEscape(t)
                  => /\ pc'[t] = "failed"
                     /\ errors' = Append(errors, t[2] \o ": " \o RaisedMsg)
                     /\ UNCHANGED << state, mainPc >>]_vars

\* the scanner failed outside its handler, the breaker paused the bot, and the main
\* loop finished normally with the failure recorded
C17_Witness ==
    /\ pc[<< 1, "Scanner" >>] = "failed"
    /\ mainPc[1] = "done"
    /\ state = "PAUSED"
    /\ errors = << "Scanner: exception" >>

\* no unit is live, every unit returned, and the main task finished normally
C18_Quiet ==
    /\ tasks = {}
    /\ \A t \in Tasks : pc[t] \in {"absent", "done"}
    /\ \A c \in Callers : mainPc[c] \in {"none", "done"}

\* C18: once a shutdown() has completed on a bot that is not started again, a unit
\* that reaches its liveness check ends there, no unit is cancelled, and eventually
\* the live set is empty for good and the main loop has finished (a completed
\* shutdown() stays completed, so "from some point on, completed implies quiet" says
\* that completion is followed by quiet for good)
C18_LoopsEndAfterShutdown ==
    /\ <>[]((\E k \in Shutdowns : shutPc[k] = "done") => C18_Quiet)
    /\ [][\A t \in Tasks :
            (/\ \E k \in Shutdowns : shutPc[k] = "done"
             /\ pc[t] = "idle"
             /\ pc'[t] # pc[t]) => pc'[t] = "done"]_vars
    /\ [](\A t \in Tasks : pc[t] \notin {"cancelled", "failed", "raised"})

\* after the shutdown the five units have returned and the main loop has finished
C18_Witness ==
    /\ shutPc[1] = "done"
    /\ shutdown_event
    /\ \A l \in Loops : pc[<< 1, l >>] = "done"
    /\ mainPc[1] = "done"
    /\ tasks = {}

\* C19: the exchange check of a health check cycle does not depend on the feed check:
\* when the exchange is disconnected once the feed check is over, whether the feed
\* was connected or its connect returned, returned failure or raised, the cycle
\* invokes the exchange's connect
C19_ExchangeCheckedIndependently ==
    [][\A t \in Tasks :
          (/\ ~exConnected
           /\ \/ HealthCycle(t) /\ StateLoopAlive(state) /\ websocket_feed /\ wsConnected
              \/ HealthFeedConnected(t, "ok")
              \/ HealthFeedConnected(t, "false")
              \/ HealthFeedConnected(t, "raise"))
             => pc'[t] = "exchange_connect"]_vars

\* C20: the circuit breaker writes PAUSED only over RUNNING: the state becomes PAUSED
\* only from RUNNING, and the risk monitor enters the liquidation of _pause_trading
\* (the step that has just written PAUSED) only in a step that began with RUNNING
C20_PausedOnlyFromRunning ==
    [][/\ (state' = "PAUSED" /\ state # "PAUSED") => state = "RUNNING"
       /\ \A t \in Tasks :
             (t[2] = "Risk Monitor" /\ pc[t] = "idle" /\ pc'[t] = "close_all_positions")
                => (state = "RUNNING" /\ state' = "PAUSED")]_vars

\* the breaker tripped on a running bot and the risk monitor is suspended in the
\* liquidation
C20_Witness ==
    /\ state = "PAUSED"
    /\ pc[<< 1, "Risk Monitor" >>] = "close_all_positions"
    /\ closeReason = PauseReason

\* C21: at most one instance of each of the five loops is live at any time: the live
\* set never holds more than five units, and no two units of the same loop, spawned
\* by different start() calls, are both short of their end
C21_OneInstancePerLoop ==
    /\ Cardinality(tasks) <= Cardinality(Loops)
    /\ \A l \in Loops :
          Cardinality({c \in Callers : pc[<< c, l >>] \notin Ended \cup {"absent"}}) <= 1

\* C22: a start() call that set RUNNING returns only after a shutdown() invoked later
\* has completed: it returns from its wait for the shutdown event, never straight
\* from the call, and the state is STOPPED or ERROR when it returns
C22_StartReturnsAfterShutdown ==
    [][\A c \in Callers :
          (startPc[c] # "returned" /\ startPc'[c] = "returned")
             => /\ startPc[c] = "waiting"
                /\ state' \in {"STOPPED", "ERROR"}]_vars

\* C23: once shutdown() has disconnected the feed, closed the exchange and written
\* STOPPED, no health check cycle invokes connect on either collaborator while the
\* state stays STOPPED
C23_NoReconnectAfterShutdown ==
    [][\A t \in Tasks :
          (/\ t[2] = "Health Check"
           /\ pc'[t] \in {"feed_connect", "exchange_connect"}
           /\ pc'[t] # pc[t]) => ~(state = "STOPPED" /\ shutdown_event)]_vars

====
